---------------------------- MODULE Spec2Model ----------------------------
(* A model of the receiver of carry_sound (src/src/receiver.py): the UDP    *)
(* ingest loop, the bounded playback queue, the carry-over slot and the     *)
(* audio callback, together with the start()/stop() lifecycle that runs     *)
(* them.                                                                    *)
(*                                                                          *)
(* A float32 sample is modelled by its 32-bit pattern (a natural number);   *)
(* a datagram is a sequence of bytes; a frame is a tuple of `channels`      *)
(* samples; a block is a sequence of frames.  Every sample a datagram       *)
(* carries has a pattern >= 1 that no other sample has, so real audio can   *)
(* be told from silence (0) and from a position never written (-1).         *)
EXTENDS Integers, Sequences, FiniteSets, TLC

\* ------------------------------------------------------------------ bounds
MaxBufferSize == 2
MaxFloats == 3
MaxDatagrams == 2
MaxCallbacks == 2
MaxFrames == 2
MaxSent == 1

\* ------------------------------------------------------- program constants
\* np.float32: four bytes per sample
BytesPerSample == 4

\* --channels: 1=mono, 2=stereo
ChannelCounts == {1, 2}

\* the payload lengths tried: every whole number of samples up to MaxFloats,
\* and one length that is no whole number of samples
PayloadLengths ==
    {BytesPerSample * n : n \in 0..MaxFloats} \cup {BytesPerSample * MaxFloats - 1}

VARIABLES
    channels,        \* self.channels
    buffer_size,     \* self.buffer_size (the deque's maxlen)
    is_running,      \* self.is_running
    socket,          \* self.socket: "none" | "open" | "closed"
    stream,          \* self.stream: "none" | "created" | "active" | "closed"
    audio_buffer,    \* self.audio_buffer: sequence of blocks
    partial_chunk,   \* self.partial_chunk: <<>> is None, <<b>> is the array b
    bytes_received,
    chunks_received,
    underruns,
    main_pc,         \* position of the main thread in start()/stop()
    ingest_pc,       \* position of the receive thread in receive_audio()
    cb_pc,           \* position of the audio thread in audio_callback()
    frames,          \* the callback's argument `frames`
    frames_written,  \* the callback's local frames_written
    outdata,         \* the callback's output buffer
    callbacks,       \* history: number of audio_callback invocations begun
    pre,             \* history: queue, carry-over and counter when the last invocation began
    emitted,         \* history: the real (non-silence) frames handed to the device, in order
    appended,        \* history: every block appended to the queue, in order
    evicted,         \* history: the blocks the deque dropped on append, in order
    rx,              \* history: the last datagram received, and the object just before it
    split,           \* history: the block being split across invocations
    cb_flags,        \* history: what the running invocation met (pop on empty, fault)
    last_op,         \* history: the last operation on the queue (append, drop, callback)
    indata,          \* sender: the block its audio_callback was last given
    wire             \* the datagram in flight from sender to receiver: <<>> or <<bytes>>

vars == <<channels, buffer_size, is_running, socket, stream, audio_buffer,
          partial_chunk, bytes_received, chunks_received, underruns,
          main_pc, ingest_pc, cb_pc, frames, frames_written, outdata,
          callbacks, pre, emitted, appended, evicted, rx, split, cb_flags,
          last_op, indata, wire>>

config_vars == <<channels, buffer_size>>
main_vars == <<is_running, socket, stream, main_pc>>
recv_vars == <<bytes_received, chunks_received, ingest_pc>>
queue_hist == <<appended, evicted, rx>>
cb_vars == <<partial_chunk, underruns, cb_pc, frames, frames_written, outdata>>
cb_hist == <<callbacks, pre, emitted, split, cb_flags>>
sender_vars == <<indata, wire>>

\* ----------------------------------------------------------------- helpers
Min(a, b) == IF a < b THEN a ELSE b

RECURSIVE Flatten(_)
\* the frames of a sequence of blocks, in order
Flatten(blocks) ==
    IF blocks = <<>> THEN <<>> ELSE Head(blocks) \o Flatten(Tail(blocks))

Take(s, n) == SubSeq(s, 1, Min(n, Len(s)))
Drop(s, n) == SubSeq(s, Min(n, Len(s)) + 1, Len(s))

\* ------------------------------------------------------------ wire format
\* the little-endian bytes of one float32 bit pattern (sender: tobytes())
SampleBytes(v) ==
    << v % 256, (v \div 256) % 256, (v \div 65536) % 256, (v \div 16777216) % 256 >>

\* the bit pattern four little-endian bytes hold
SampleOf(b) == b[1] + 256 * b[2] + 65536 * b[3] + 16777216 * b[4]

RECURSIVE Ravel(_)
\* the samples of a block in C order: frame after frame, channels interleaved
Ravel(block) ==
    IF block = <<>> THEN <<>> ELSE Head(block) \o Ravel(Tail(block))

RECURSIVE BytesOf(_)
BytesOf(samples) ==
    IF samples = <<>> THEN <<>> ELSE SampleBytes(Head(samples)) \o BytesOf(Tail(samples))

\* sender.py line 78: indata.astype(np.float32).tobytes(); indata is float32
\* already (the InputStream's default dtype), so astype changes no sample
ToBytes(block) == BytesOf(Ravel(block))

\* the k-th datagram off the socket, of nbytes bytes: whole samples none of
\* which occurs in another datagram, then the stray bytes that are left
\* the bit pattern of the i-th sample of the k-th datagram: one per (k, i)
SampleId(k, i) == ((k + i) * (k + i + 1)) \div 2 + i

RECURSIVE PayloadOf(_, _, _)
PayloadOf(k, nfloats, i) ==
    IF i > nfloats THEN <<>>
    ELSE SampleBytes(SampleId(k, i)) \o PayloadOf(k, nfloats, i + 1)

Datagram(k, nbytes) ==
    PayloadOf(k, nbytes \div BytesPerSample, 1)
       \o [j \in 1..(nbytes % BytesPerSample) |-> 255]

\* np.frombuffer(data, dtype=np.float32): ValueError unless the byte count is
\* a multiple of the element size
FromBufferOk(data) == Len(data) % BytesPerSample = 0

FromBuffer(data) ==
    [i \in 1..(Len(data) \div BytesPerSample) |->
        SampleOf(SubSeq(data, BytesPerSample * (i - 1) + 1, BytesPerSample * i))]

\* a.reshape(-1, channels): ValueError unless the size divides by channels
ReshapeOk(a, ch) == Len(a) % ch = 0

\* mutant: the samples are taken as planar (channel after channel) instead of
\* interleaved
ReshapePlanar(a, ch) ==
    [f \in 1..(Len(a) \div ch) |-> [c \in 1..ch |-> a[(c - 1) * (Len(a) \div ch) + f]]]

Reshape(a, ch) ==
    [f \in 1..(Len(a) \div ch) |-> [c \in 1..ch |-> a[(f - 1) * ch + c]]]

\* lines 81-82 as a whole: does the payload decode, and to what block
DecodeOk(data, ch) == FromBufferOk(data) /\ ReshapeOk(FromBuffer(data), ch)

Decode(data, ch) == Reshape(FromBuffer(data), ch)

\* ------------------------------------------------------------------ deque
\* mutant: a full deque refuses the new block instead of dropping the oldest
DequeAppendDropNewest(q, x, maxlen) ==
    IF Len(q) >= maxlen THEN q ELSE Append(q, x)

\* deque(maxlen=n).append(x): x goes in at the right, and the deque is then
\* trimmed from the left while it is longer than maxlen
DequeAppend(q, x, maxlen) ==
    LET q2 == Append(q, x)
    IN  IF Len(q2) > maxlen THEN Tail(q2) ELSE q2

\* --------------------------------------------------------- audio_callback
SilenceRow(ch) == [c \in 1..ch |-> 0]
UnwrittenRow(ch) == [c \in 1..ch |-> -1]

\* outdata[at : at + len(rows)] = rows
CopyInto(out, at, rows) ==
    [i \in 1..Len(out) |->
        IF i > at /\ i <= at + Len(rows) THEN rows[i - at] ELSE out[i]]

\* the callback's view of the object when an invocation begins
CbEnter(part, queue, under, n, ch) ==
    [ partial_chunk |-> part,
      audio_buffer |-> queue,
      underruns |-> under,
      frames_written |-> 0,
      outdata |-> [i \in 1..n |-> UnwrittenRow(ch)] ]

\* mutant: a carry-over that is not used up is kept whole, not cut
CarryStepKeepsWhole(st, n) ==
    IF st.partial_chunk # <<>> /\ Len(st.partial_chunk[1]) > 0
    THEN LET chunk == st.partial_chunk[1]
             frames_to_copy == Min(Len(chunk), n - st.frames_written)
         IN  [st EXCEPT
                !.outdata = CopyInto(@, st.frames_written, SubSeq(chunk, 1, frames_to_copy)),
                !.frames_written = @ + frames_to_copy,
                !.partial_chunk = IF frames_to_copy < Len(chunk) THEN << chunk >> ELSE <<>>]
    ELSE st

\* lines 109-118: play the carry-over first
CarryStep(st, n) ==
    IF st.partial_chunk # <<>> /\ Len(st.partial_chunk[1]) > 0
    THEN LET chunk == st.partial_chunk[1]
             frames_to_copy == Min(Len(chunk), n - st.frames_written)
         IN  [st EXCEPT
                !.outdata = CopyInto(@, st.frames_written, SubSeq(chunk, 1, frames_to_copy)),
                !.frames_written = @ + frames_to_copy,
                !.partial_chunk =
                    IF frames_to_copy < Len(chunk)
                    THEN << SubSeq(chunk, frames_to_copy + 1, Len(chunk)) >>
                    ELSE <<>>]
    ELSE st

\* mutant: the loop condition does not look at the queue
LoopCondIgnoresQueue(st, n) == st.frames_written < n

\* line 121: the loop condition
LoopCond(st, n) == st.frames_written < n /\ st.audio_buffer # <<>>

\* mutant: the part of a popped block that does not fit is not saved
PopStepDropsRest(st, n) ==
    LET audio_chunk == Head(st.audio_buffer)
        frames_to_copy == Min(Len(audio_chunk), n - st.frames_written)
    IN  [st EXCEPT
           !.audio_buffer = Tail(@),
           !.outdata = CopyInto(@, st.frames_written, SubSeq(audio_chunk, 1, frames_to_copy)),
           !.frames_written = @ + frames_to_copy]

\* mutant: what is left of the block goes back into the queue
PopStepRequeues(st, n) ==
    LET audio_chunk == Head(st.audio_buffer)
        frames_to_copy == Min(Len(audio_chunk), n - st.frames_written)
    IN  [st EXCEPT
           !.audio_buffer =
               IF frames_to_copy < Len(audio_chunk)
               THEN Append(Tail(@), SubSeq(audio_chunk, frames_to_copy + 1, Len(audio_chunk)))
               ELSE Tail(@),
           !.outdata = CopyInto(@, st.frames_written, SubSeq(audio_chunk, 1, frames_to_copy)),
           !.frames_written = @ + frames_to_copy]

\* mutant: what is left of the block is saved without the test of line 128
PopStepAlwaysSaves(st, n) ==
    LET audio_chunk == Head(st.audio_buffer)
        frames_to_copy == Min(Len(audio_chunk), n - st.frames_written)
    IN  [st EXCEPT
           !.audio_buffer = Tail(@),
           !.outdata = CopyInto(@, st.frames_written, SubSeq(audio_chunk, 1, frames_to_copy)),
           !.frames_written = @ + frames_to_copy,
           !.partial_chunk = << SubSeq(audio_chunk, frames_to_copy + 1, Len(audio_chunk)) >>]

\* lines 122-129: one pass of the loop body, on a non-empty queue
PopStep(st, n) ==
    LET audio_chunk == Head(st.audio_buffer)
        frames_to_copy == Min(Len(audio_chunk), n - st.frames_written)
    IN  [st EXCEPT
           !.audio_buffer = Tail(@),
           !.outdata = CopyInto(@, st.frames_written, SubSeq(audio_chunk, 1, frames_to_copy)),
           !.frames_written = @ + frames_to_copy,
           !.partial_chunk =
               IF frames_to_copy < Len(audio_chunk)
               THEN << SubSeq(audio_chunk, frames_to_copy + 1, Len(audio_chunk)) >>
               ELSE @]

\* mutant: silence is written only in the under-run case
FillStepOnlyOnUnderrun(st, n) ==
    IF st.frames_written < n /\ st.frames_written = 0
    THEN [st EXCEPT
            !.outdata = [i \in 1..Len(@) |-> SilenceRow(Len(@[i]))],
            !.underruns = @ + 1]
    ELSE st

\* mutant: the under-run is not counted
FillStepNoCount(st, n) ==
    IF st.frames_written < n
    THEN [st EXCEPT
            !.outdata = [i \in 1..Len(@) |->
                            IF i > st.frames_written THEN SilenceRow(Len(@[i])) ELSE @[i]]]
    ELSE st

\* mutant: every invocation that needs silence counts as an under-run
FillStepCountsPartial(st, n) ==
    IF st.frames_written < n
    THEN [st EXCEPT
            !.outdata = [i \in 1..Len(@) |->
                            IF i > st.frames_written THEN SilenceRow(Len(@[i])) ELSE @[i]],
            !.underruns = @ + 1]
    ELSE st

\* lines 132-135: silence for what is left, and the under-run count
FillStep(st, n) ==
    IF st.frames_written < n
    THEN [st EXCEPT
            !.outdata = [i \in 1..Len(@) |->
                            IF i > st.frames_written THEN SilenceRow(Len(@[i])) ELSE @[i]],
            !.underruns = IF st.frames_written = 0 THEN @ + 1 ELSE @]
    ELSE st

\* mutant: the except branch leaves the output as it is
ExceptStepKeeps(st) == st

\* lines 137-139: the except branch, outdata.fill(0)
ExceptStep(st) ==
    [st EXCEPT !.outdata = [i \in 1..Len(@) |-> SilenceRow(Len(@[i]))]]

RECURSIVE RunLoop(_, _)
\* lines 121-129: the while loop, run to its end
RunLoop(st, n) ==
    IF LoopCond(st, n) THEN RunLoop(PopStep(st, n), n) ELSE st

\* mutant: the invocation returns after the loop, without the silence fill
AudioCallbackSkipsFill(st, n) == RunLoop(CarryStep(st, n), n)

\* lines 105-135: a whole invocation in which nothing raises
AudioCallback(st, n) == FillStep(RunLoop(CarryStep(st, n), n), n)

\* ---------------------------------------------------------- receive_audio
\* mutant: a payload that does not divide into frames is cut to its largest
\* prefix of whole frames and that is appended
EnqueueTruncating(q, data, ch, maxlen) ==
    LET whole == (Len(data) \div (ch * BytesPerSample)) * (ch * BytesPerSample)
    IN  DequeAppend(q, Decode(SubSeq(data, 1, whole), ch), maxlen)

\* mutant: the block goes in at the left (appendleft), the deque then being
\* trimmed from the right
EnqueueAtFront(q, data, ch, maxlen) ==
    IF DecodeOk(data, ch)
    THEN Take(<< Decode(data, ch) >> \o q, maxlen)
    ELSE q

\* lines 81-85: decode the payload and append the block; a ValueError from
\* the decode is caught at line 89 and leaves the queue as it was
Enqueue(q, data, ch, maxlen) ==
    IF DecodeOk(data, ch) THEN DequeAppend(q, Decode(data, ch), maxlen) ELSE q

\* what an append made the deque drop (history only)
Dropped(q, x, q2) == IF Len(q2) < Len(q) + 1 THEN << Head(Append(q, x)) >> ELSE <<>>

\* ------------------------------------------------------------------- Init
Init ==
    /\ channels \in ChannelCounts
    /\ buffer_size \in 0..MaxBufferSize
    /\ is_running = FALSE
    /\ socket = "none"
    /\ stream = "none"
    /\ audio_buffer = <<>>
    /\ partial_chunk = <<>>
    /\ bytes_received = 0
    /\ chunks_received = 0
    /\ underruns = 0
    /\ main_pc = "init"
    /\ ingest_pc = "none"
    /\ cb_pc = "idle"
    /\ frames = 0
    /\ frames_written = 0
    /\ outdata = <<>>
    /\ callbacks = 0
    /\ pre = [audio_buffer |-> <<>>, partial_chunk |-> <<>>, underruns |-> 0]
    /\ emitted = <<>>
    /\ appended = <<>>
    /\ evicted = <<>>
    /\ rx = [data |-> <<>>, audio_buffer |-> <<>>, chunks |-> 0, bytes |-> 0]
    /\ split = [tracking |-> FALSE, block |-> <<>>, n |-> 1, calls |-> 0]
    /\ cb_flags = [pop_empty |-> FALSE, fault |-> FALSE, saw_empty |-> FALSE]
    /\ last_op = "none"
    /\ indata = <<>>
    /\ wire = <<>>

\* ------------------------------------------------------- start() / stop()
\* lines 144-145: set the flag, then setup_socket(), which may raise before
\* or after self.socket is assigned
StartSetup ==
    /\ main_pc = "init"
    /\ is_running' = TRUE
    /\ \E outcome \in {"ok", "no_socket", "bind_failed"} :
          /\ socket' = CASE outcome = "ok" -> "open"
                         [] outcome = "no_socket" -> "none"
                         [] OTHER -> "unbound"
          /\ main_pc' = IF outcome = "ok" THEN "spawn" ELSE "stop"
    /\ UNCHANGED <<config_vars, sender_vars, stream, audio_buffer, recv_vars, queue_hist, cb_vars, cb_hist, last_op>>

\* lines 157-158: start the receive thread
StartThread ==
    /\ main_pc = "spawn"
    /\ ingest_pc' = "loop"
    /\ main_pc' = "open_stream"
    /\ UNCHANGED <<config_vars, sender_vars, is_running, socket, stream, audio_buffer, bytes_received,
                   chunks_received, queue_hist, cb_vars, cb_hist, last_op>>

\* lines 161-170: create the output stream and start it; either may raise
StartStream ==
    /\ main_pc = "open_stream"
    /\ \E outcome \in {"ok", "ctor_failed", "start_failed"} :
          /\ stream' = CASE outcome = "ok" -> "active"
                         [] outcome = "ctor_failed" -> "none"
                         [] OTHER -> "created"
          /\ main_pc' = IF outcome = "ok" THEN "wait" ELSE "stop"
    /\ UNCHANGED <<config_vars, sender_vars, is_running, socket, audio_buffer, recv_vars, queue_hist,
                   cb_vars, cb_hist, last_op>>

\* lines 176-185: KeyboardInterrupt ends the wait (or whatever start() was
\* doing), and the finally clause calls stop()
Interrupt ==
    /\ main_pc \in {"spawn", "open_stream", "wait"}
    /\ main_pc' = "stop"
    /\ UNCHANGED <<config_vars, sender_vars, is_running, socket, stream, audio_buffer, recv_vars,
                   queue_hist, cb_vars, cb_hist, last_op>>

\* mutant: stop() leaves the flag as it is
StopFlagKeeps ==
    /\ main_pc = "stop"
    /\ main_pc' = "stop_stream"
    /\ UNCHANGED <<config_vars, sender_vars, is_running, socket, stream, audio_buffer, recv_vars,
                   queue_hist, cb_vars, cb_hist, last_op>>

\* line 189
StopFlag ==
    /\ main_pc = "stop"
    /\ is_running' = FALSE
    /\ main_pc' = "stop_stream"
    /\ UNCHANGED <<config_vars, sender_vars, socket, stream, audio_buffer, recv_vars, queue_hist,
                   cb_vars, cb_hist, last_op>>

\* lines 191-194: stream.stop() returns once no callback is running
StopStream ==
    /\ main_pc = "stop_stream"
    /\ cb_pc = "idle"
    /\ stream' = IF stream = "none" THEN "none" ELSE "closed"
    /\ main_pc' = "stop_socket"
    /\ UNCHANGED <<config_vars, sender_vars, is_running, socket, audio_buffer, recv_vars, queue_hist,
                   cb_vars, cb_hist, last_op>>

\* lines 196-198
StopSocket ==
    /\ main_pc = "stop_socket"
    /\ socket' = IF socket = "none" THEN "none" ELSE "closed"
    /\ main_pc' = "stats"
    /\ UNCHANGED <<config_vars, sender_vars, is_running, stream, audio_buffer, recv_vars, queue_hist,
                   cb_vars, cb_hist, last_op>>

\* lines 200-206
PrintStats ==
    /\ main_pc = "stats"
    /\ main_pc' = "done"
    /\ UNCHANGED <<config_vars, sender_vars, is_running, socket, stream, audio_buffer, recv_vars,
                   queue_hist, cb_vars, cb_hist, last_op>>

\* ---------------------------------------------------------- receive_audio
\* mutant: the loop does not look at the flag (while True)
IngestCheckIgnoresFlag ==
    /\ ingest_pc = "loop"
    /\ ingest_pc' = "recv"
    /\ UNCHANGED <<config_vars, sender_vars, main_vars, audio_buffer, bytes_received, chunks_received,
                   queue_hist, cb_vars, cb_hist, last_op>>

\* line 74: the loop condition
IngestCheck ==
    /\ ingest_pc = "loop"
    /\ ingest_pc' = IF is_running THEN "recv" ELSE "exited"
    /\ UNCHANGED <<config_vars, sender_vars, main_vars, audio_buffer, bytes_received, chunks_received,
                   queue_hist, cb_vars, cb_hist, last_op>>

\* mutant: the counters are incremented after the decode, so that a datagram
\* that does not decode is not counted
ReceiveCountsAfterDecode(data) ==
    LET q2 == Enqueue(audio_buffer, data, channels, buffer_size)
    IN  /\ audio_buffer' = q2
        /\ rx' = [data |-> data, audio_buffer |-> audio_buffer,
                  chunks |-> chunks_received, bytes |-> bytes_received]
        /\ IF DecodeOk(data, channels)
           THEN /\ bytes_received' = bytes_received + Len(data)
                /\ chunks_received' = chunks_received + 1
                /\ appended' = Append(appended, Decode(data, channels))
                /\ evicted' = evicted \o Dropped(audio_buffer, Decode(data, channels), q2)
                /\ last_op' = "append"
           ELSE /\ UNCHANGED <<bytes_received, chunks_received, appended, evicted>>
                /\ last_op' = "drop"

\* lines 77-85 (and 89-91 when the decode raises): what the loop does with
\* the payload recvfrom returned
Receive(data) ==
    LET q2 == Enqueue(audio_buffer, data, channels, buffer_size)
    IN  /\ bytes_received' = bytes_received + Len(data)
        /\ chunks_received' = chunks_received + 1
        /\ audio_buffer' = q2
        /\ rx' = [data |-> data, audio_buffer |-> audio_buffer,
                  chunks |-> chunks_received, bytes |-> bytes_received]
        /\ IF DecodeOk(data, channels)
           THEN /\ appended' = Append(appended, Decode(data, channels))
                /\ evicted' = evicted \o Dropped(audio_buffer, Decode(data, channels), q2)
                /\ last_op' = "append"
           ELSE /\ UNCHANGED <<appended, evicted>>
                /\ last_op' = "drop"

\* lines 76-85 (and 89-91 when the decode raises): a datagram arrives
IngestData ==
    /\ ingest_pc = "recv"
    /\ socket = "open"
    /\ chunks_received < MaxDatagrams
    /\ \E nbytes \in PayloadLengths :
          Receive(Datagram(chunks_received + 1, nbytes))
    /\ ingest_pc' = "loop"
    /\ UNCHANGED <<config_vars, sender_vars, main_vars, cb_vars, cb_hist>>

\* lines 87-88: socket.timeout
IngestTimeout ==
    /\ ingest_pc = "recv"
    /\ socket \in {"open", "closed"}
    /\ ingest_pc' = "loop"
    /\ UNCHANGED <<config_vars, sender_vars, main_vars, audio_buffer, bytes_received, chunks_received,
                   queue_hist, cb_vars, cb_hist, last_op>>

\* mutant: a receive error ends the loop
IngestErrorBreaks ==
    /\ ingest_pc = "recv"
    /\ socket \in {"open", "closed"}
    /\ ingest_pc' = "exited"
    /\ UNCHANGED <<config_vars, sender_vars, main_vars, audio_buffer, bytes_received, chunks_received,
                   queue_hist, cb_vars, cb_hist, last_op>>

\* lines 89-91: recvfrom raises something else (a transient error, or the
\* socket was closed by stop()); it is printed only while the flag is set
IngestError ==
    /\ ingest_pc = "recv"
    /\ socket \in {"open", "closed"}
    /\ ingest_pc' = "loop"
    /\ UNCHANGED <<config_vars, sender_vars, main_vars, audio_buffer, bytes_received, chunks_received,
                   queue_hist, cb_vars, cb_hist, last_op>>

\* --------------------------------------------------------- audio_callback
\* history: the block an invocation takes first from the queue, with an empty
\* carry-over, is followed through the invocations that request the same
\* number of frames; calls counts the invocations that played some of it
SplitNext(sp, part, queue, n) ==
    IF part # <<>>
    THEN IF sp.tracking /\ n = sp.n /\ sp.calls * sp.n < Len(sp.block)
         THEN [sp EXCEPT !.calls = @ + 1]
         ELSE [sp EXCEPT !.tracking = FALSE]
    ELSE IF queue # <<>>
         THEN [tracking |-> TRUE, block |-> Head(queue), n |-> n,
               calls |-> IF Len(Head(queue)) > 0 THEN 1 ELSE 0]
         ELSE [sp EXCEPT !.tracking = FALSE]

\* lines 93-139: audio_callback(outdata, frames = n, ...) on the object
Invoke(n) ==
    LET st == AudioCallback(
                  CbEnter(partial_chunk, audio_buffer, underruns, n, channels), n)
    IN  /\ frames' = n
        /\ partial_chunk' = st.partial_chunk
        /\ audio_buffer' = st.audio_buffer
        /\ underruns' = st.underruns
        /\ frames_written' = st.frames_written
        /\ outdata' = st.outdata
        /\ emitted' = emitted \o Take(st.outdata, st.frames_written)
        /\ split' = SplitNext(split, partial_chunk, audio_buffer, n)

\* lines 93-139, a whole invocation by the device of the active stream
Callback ==
    /\ stream = "active"
    /\ cb_pc = "idle"
    /\ callbacks < MaxCallbacks
    /\ \E n \in 1..MaxFrames : Invoke(n)
    /\ callbacks' = callbacks + 1
    /\ pre' = [audio_buffer |-> audio_buffer, partial_chunk |-> partial_chunk,
               underruns |-> underruns]
    /\ cb_flags' = [pop_empty |-> FALSE, fault |-> FALSE, saw_empty |-> FALSE]
    /\ last_op' = "callback"
    /\ UNCHANGED <<config_vars, sender_vars, main_vars, recv_vars, queue_hist, cb_pc>>

\* ------------------------------------------------------------------- Spec
\* start() up to the wait loop
Startup ==
    \/ StartSetup
    \/ StartThread
    \/ StartStream

\* the end of start(), and stop()
Shutdown ==
    \/ Interrupt
    \/ StopFlag
    \/ StopStream
    \/ StopSocket
    \/ PrintStats

Lifecycle ==
    \/ Startup
    \/ Shutdown

Ingest ==
    \/ IngestCheck
    \/ IngestData
    \/ IngestTimeout
    \/ IngestError

Next ==
    \/ Lifecycle
    \/ Ingest
    \/ Callback

\* the whole program: start(), the two threads it runs, stop()
Spec == Init /\ [][Next]_vars

\* the whole program, the receive thread being scheduled whenever it can
\* take a step: recvfrom returns within its one-second timeout (line 68)
SpecFair == Spec /\ WF_vars(Ingest)

\* the receiver from start() on, for as long as it is not stopped
NextPlay ==
    \/ Startup
    \/ Ingest
    \/ Callback

SpecPlay == Init /\ [][NextPlay]_vars

\* ---------------------------------------- audio_callback, when it raises
RECURSIVE RunLoopN(_, _, _)
\* lines 121-129: at most k passes of the while loop
RunLoopN(st, n, k) ==
    IF k > 0 /\ LoopCond(st, n) THEN RunLoopN(PopStep(st, n), n, k - 1) ELSE st

(* lines 93-139, a whole invocation in which a statement of the try block   *)
(* raises: the copy from the carry-over (line 111), the copy from the j-th  *)
(* block popped (line 124, after its popleft), or the silence fill (line    *)
(* 133).  What the invocation did before stays done; the except branch      *)
(* (lines 137-139) zeroes the output and the invocation returns.            *)
CallbackRaises ==
    /\ stream = "active"
    /\ cb_pc = "idle"
    /\ callbacks < MaxCallbacks
    /\ \E n \in 1..MaxFrames, at \in {"carry", "pop", "fill"}, j \in 1..MaxBufferSize :
          LET st0 == CbEnter(partial_chunk, audio_buffer, underruns, n, channels)
              st1 == CarryStep(st0, n)
              stj == RunLoopN(st1, n, j - 1)
              st2 == RunLoop(st1, n)
              raised == CASE at = "carry" -> st0
                          [] at = "pop" -> [stj EXCEPT !.audio_buffer = Tail(@)]
                          [] OTHER -> st2
              st == ExceptStep(raised)
          IN  /\ CASE at = "carry" -> j = 1 /\ partial_chunk # <<>>
                                          /\ Len(partial_chunk[1]) > 0
                   [] at = "pop" -> j <= Len(audio_buffer) /\ LoopCond(stj, n)
                                       /\ Len(audio_buffer) - Len(stj.audio_buffer) = j - 1
                   [] OTHER -> j = 1 /\ st2.frames_written < n
              /\ frames' = n
              /\ partial_chunk' = st.partial_chunk
              /\ audio_buffer' = st.audio_buffer
              /\ underruns' = st.underruns
              /\ frames_written' = st.frames_written
              /\ outdata' = st.outdata
    /\ callbacks' = callbacks + 1
    /\ pre' = [audio_buffer |-> audio_buffer, partial_chunk |-> partial_chunk,
               underruns |-> underruns]
    /\ split' = [split EXCEPT !.tracking = FALSE]
    /\ cb_flags' = [pop_empty |-> FALSE, fault |-> TRUE, saw_empty |-> FALSE]
    /\ last_op' = "callback"
    /\ UNCHANGED <<config_vars, sender_vars, main_vars, recv_vars, queue_hist, cb_pc, emitted>>

\* the receiver from start() on, with invocations that raise
NextFault ==
    \/ NextPlay
    \/ CallbackRaises

SpecFault == Init /\ [][NextFault]_vars

\* ------------------------------------- audio_callback, statement by statement
(* The same invocation taken apart at the places where the receive thread   *)
(* can run in between: the queue is read at the loop condition (line 121)   *)
(* and at popleft (line 122); everything else touches only what the audio   *)
(* thread owns.  popleft on an empty deque raises IndexError, which the     *)
(* except branch (lines 137-139) catches.                                   *)
CbState ==
    [ partial_chunk |-> partial_chunk,
      audio_buffer |-> audio_buffer,
      underruns |-> underruns,
      frames_written |-> frames_written,
      outdata |-> outdata ]

\* lines 105-118
CbBegin ==
    /\ stream = "active"
    /\ cb_pc = "idle"
    /\ callbacks < MaxCallbacks
    /\ \E n \in 1..MaxFrames :
          LET st == CarryStep(
                        CbEnter(partial_chunk, audio_buffer, underruns, n, channels), n)
          IN  /\ frames' = n
              /\ partial_chunk' = st.partial_chunk
              /\ frames_written' = st.frames_written
              /\ outdata' = st.outdata
    /\ cb_pc' = "check"
    /\ cb_flags' = [pop_empty |-> FALSE, fault |-> FALSE, saw_empty |-> FALSE]
    /\ callbacks' = callbacks + 1
    /\ pre' = [audio_buffer |-> audio_buffer, partial_chunk |-> partial_chunk,
               underruns |-> underruns]
    /\ UNCHANGED <<config_vars, sender_vars, main_vars, recv_vars, queue_hist, audio_buffer, underruns,
                   emitted, split, last_op>>

\* line 121
CbCheck ==
    /\ cb_pc = "check"
    /\ cb_pc' = IF LoopCond(CbState, frames) THEN "pop" ELSE "fill"
    /\ cb_flags' = [cb_flags EXCEPT !.saw_empty = (audio_buffer = <<>>)]
    /\ last_op' = "check"
    /\ UNCHANGED <<config_vars, sender_vars, main_vars, recv_vars, queue_hist, audio_buffer,
                   partial_chunk, underruns, frames, frames_written, outdata,
                   callbacks, pre, emitted, split>>

\* lines 122-129 (and 137-139, should popleft raise)
CbPop ==
    /\ cb_pc = "pop"
    /\ IF audio_buffer = <<>>
       THEN /\ cb_flags' = [cb_flags EXCEPT !.pop_empty = TRUE]
            /\ outdata' = ExceptStep(CbState).outdata
            /\ cb_pc' = "idle"
            /\ last_op' = "callback"
            /\ UNCHANGED <<audio_buffer, partial_chunk, frames_written>>
       ELSE LET st == PopStep(CbState, frames)
            IN  /\ audio_buffer' = st.audio_buffer
                /\ partial_chunk' = st.partial_chunk
                /\ frames_written' = st.frames_written
                /\ outdata' = st.outdata
                /\ cb_pc' = "check"
                /\ last_op' = "pop"
                /\ UNCHANGED cb_flags
    /\ UNCHANGED <<config_vars, sender_vars, main_vars, recv_vars, queue_hist, underruns, frames,
                   callbacks, pre, emitted, split>>

\* lines 132-135, and the return
CbFill ==
    /\ cb_pc = "fill"
    /\ LET st == FillStep(CbState, frames)
       IN  /\ outdata' = st.outdata
           /\ underruns' = st.underruns
           /\ emitted' = emitted \o Take(st.outdata, st.frames_written)
    /\ cb_pc' = "idle"
    /\ last_op' = "callback"
    /\ UNCHANGED <<config_vars, sender_vars, main_vars, recv_vars, queue_hist, audio_buffer,
                   partial_chunk, frames, frames_written, callbacks, pre, split, cb_flags>>

CbStep ==
    \/ CbCheck
    \/ CbPop
    \/ CbFill

\* the receiver from start() on, for as long as it is not stopped, with the
\* callback taken statement by statement
NextConc ==
    \/ Startup
    \/ Ingest
    \/ CbBegin
    \/ CbStep

SpecConc == Init /\ [][NextConc]_vars

\* ------------------------------------------------- a playback scenario
(* AudioReceiver(channels = 1, buffer_size = 10, chunk_size = 4) is started, *)
(* receives three datagrams of up to chunk_size frames each, and the device  *)
(* then asks four times for chunk_size frames.                               *)
Scenario == [channels |-> 1, buffer_size |-> 10, chunk_size |-> 4,
             datagrams |-> 3, invocations |-> 4]

\* lines 17-50 with the scenario's arguments
ScenarioInit ==
    /\ channels = Scenario.channels
    /\ buffer_size = Scenario.buffer_size
    /\ is_running = FALSE
    /\ socket = "none"
    /\ stream = "none"
    /\ audio_buffer = <<>>
    /\ partial_chunk = <<>>
    /\ bytes_received = 0
    /\ chunks_received = 0
    /\ underruns = 0
    /\ main_pc = "init"
    /\ ingest_pc = "none"
    /\ cb_pc = "idle"
    /\ frames = 0
    /\ frames_written = 0
    /\ outdata = <<>>
    /\ callbacks = 0
    /\ pre = [audio_buffer |-> <<>>, partial_chunk |-> <<>>, underruns |-> 0]
    /\ emitted = <<>>
    /\ appended = <<>>
    /\ evicted = <<>>
    /\ rx = [data |-> <<>>, audio_buffer |-> <<>>, chunks |-> 0, bytes |-> 0]
    /\ split = [tracking |-> FALSE, block |-> <<>>, n |-> 1, calls |-> 0]
    /\ cb_flags = [pop_empty |-> FALSE, fault |-> FALSE, saw_empty |-> FALSE]
    /\ last_op = "none"
    /\ indata = <<>>
    /\ wire = <<>>

\* lines 76-85: a datagram of 0..chunk_size whole frames arrives, before the
\* device has asked for anything
ScenarioEnqueue ==
    /\ ingest_pc = "recv"
    /\ socket = "open"
    /\ stream = "active"
    /\ chunks_received < Scenario.datagrams
    /\ \E size \in 0..Scenario.chunk_size :
          Receive(Datagram(chunks_received + 1, BytesPerSample * channels * size))
    /\ ingest_pc' = "loop"
    /\ UNCHANGED <<config_vars, sender_vars, main_vars, cb_vars, cb_hist>>

\* lines 93-139: the device asks for chunk_size frames (blocksize, line 166)
ScenarioCallback ==
    /\ stream = "active"
    /\ cb_pc = "idle"
    /\ chunks_received = Scenario.datagrams
    /\ callbacks < Scenario.invocations
    /\ Invoke(Scenario.chunk_size)
    /\ callbacks' = callbacks + 1
    /\ pre' = [audio_buffer |-> audio_buffer, partial_chunk |-> partial_chunk,
               underruns |-> underruns]
    /\ cb_flags' = [pop_empty |-> FALSE, fault |-> FALSE, saw_empty |-> FALSE]
    /\ last_op' = "callback"
    /\ UNCHANGED <<config_vars, sender_vars, main_vars, recv_vars, queue_hist, cb_pc>>

NextScenario ==
    \/ Startup
    \/ IngestCheck
    \/ ScenarioEnqueue
    \/ ScenarioCallback

SpecScenario == ScenarioInit /\ [][NextScenario]_vars

\* ------------------------------------------------- sender to receiver
\* float32 bit patterns the microphone delivers: 1.0 and 3.1415927
SampleValues == {1065353216, 1078530011}

\* the blocks of up to MaxFrames frames of ch channels
Blocks(ch) == UNION {[1..f -> [1..ch -> SampleValues]] : f \in 0..MaxFrames}

\* sender.py lines 76-84: the sender's audio_callback serialises the block it
\* was given and sends it as one datagram
SenderCallback ==
    /\ wire = <<>>
    /\ chunks_received < MaxSent
    /\ \E block \in Blocks(channels) :
          /\ indata' = block
          /\ wire' = << ToBytes(block) >>
    /\ UNCHANGED <<config_vars, main_vars, recv_vars, audio_buffer, queue_hist, cb_vars,
                   cb_hist, last_op>>

\* lines 76-85: recvfrom returns the datagram the sender sent
IngestWire ==
    /\ ingest_pc = "recv"
    /\ socket = "open"
    /\ wire # <<>>
    /\ Receive(wire[1])
    /\ wire' = <<>>
    /\ ingest_pc' = "loop"
    /\ UNCHANGED <<config_vars, indata, main_vars, cb_vars, cb_hist>>

NextWire ==
    \/ Startup
    \/ IngestCheck
    \/ SenderCallback
    \/ IngestWire

\* a sender and a receiver with the same channel count
SpecWire == Init /\ [][NextWire]_vars

\* ----------------------------------------------------------------- claims
\* the frames waiting to be played: the carry-over, then the queue
Pending(part, queue) == Flatten(part) \o Flatten(queue)

AllSilence(out, n, ch) == out = [i \in 1..n |-> SilenceRow(ch)]

RealRow(row, ch) == Len(row) = ch /\ \A c \in 1..ch : row[c] >= 1

CeilDiv(a, b) == (a + b - 1) \div b

\* C1: frame conservation.  Each invocation hands the device the first
\* `frames` frames that were waiting (carry-over, then queue, in order) and
\* leaves exactly the rest waiting; so, as long as the deque has dropped no
\* block, the frames played so far followed by the frames still waiting are
\* the frames of all enqueued blocks, in order, none lost and none repeated.
FrameConservation ==
    /\ callbacks > 0 =>
          LET avail == Pending(pre.partial_chunk, pre.audio_buffer)
          IN  /\ frames_written = Min(frames, Len(avail))
              /\ Take(outdata, frames_written) = Take(avail, frames)
    /\ last_op = "callback" =>
          Pending(partial_chunk, audio_buffer)
             = Drop(Pending(pre.partial_chunk, pre.audio_buffer), frames)
    /\ evicted = <<>> =>
          emitted \o Pending(partial_chunk, audio_buffer) = Flatten(appended)

\* C1 witness: two blocks were enqueued, none dropped, and two invocations
\* played three frames or more and left a remainder in the carry-over
FrameConservationWitness ==
    /\ evicted = <<>>
    /\ Len(appended) >= 2
    /\ callbacks >= 2
    /\ Len(emitted) >= 3
    /\ partial_chunk # <<>>

\* C2: after an invocation every output position is written: real frames in
\* [0, frames_written), silence in [frames_written, frames).
EveryPositionWritten ==
    callbacks > 0 =>
       /\ Len(outdata) = frames
       /\ frames_written <= frames
       /\ \A i \in 1..frames :
             IF i <= frames_written
             THEN RealRow(outdata[i], channels)
             ELSE outdata[i] = SilenceRow(channels)

\* C2 witness: an invocation that wrote real frames and then silence
EveryPositionWrittenWitness ==
    /\ callbacks > 0
    /\ 0 < frames_written
    /\ frames_written < frames

\* C3: an invocation that begins with an empty queue and no carry-over adds
\* exactly 1 to the under-run counter and outputs only zeros.
UnderrunOnEmpty ==
    (callbacks > 0 /\ pre.audio_buffer = <<>> /\ pre.partial_chunk = <<>>) =>
       /\ underruns = pre.underruns + 1
       /\ AllSilence(outdata, frames, channels)

\* C3 witness: real audio was played before, then an invocation found nothing
UnderrunOnEmptyWitness ==
    /\ callbacks >= 2
    /\ pre.audio_buffer = <<>>
    /\ pre.partial_chunk = <<>>
    /\ emitted # <<>>
    /\ underruns = 1

\* the output of a partial fill: what was waiting, then silence to the end
PartialFill(avail) ==
    /\ frames_written = Len(avail)
    /\ outdata = avail \o [i \in 1..(frames - Len(avail)) |-> SilenceRow(channels)]

\* C4 as claimed: an invocation that begins with a block in the carry-over or
\* the queue, but fewer frames than requested, leaves the under-run counter
\* as it was and zero-fills only the remainder, whatever the blocks are.
PartialFillNotUnderrunAnyBlock ==
    LET avail == Pending(pre.partial_chunk, pre.audio_buffer)
    IN  (/\ callbacks > 0
         /\ pre.audio_buffer # <<>> \/ pre.partial_chunk # <<>>
         /\ Len(avail) < frames)
        => (underruns = pre.underruns /\ PartialFill(avail))

\* C4 amended: the same when at least one frame was waiting; when the queue
\* held only blocks of zero frames, the output is all zeros and the counter
\* goes up by 1.
PartialFillNotUnderrun ==
    LET avail == Pending(pre.partial_chunk, pre.audio_buffer)
    IN  (/\ callbacks > 0
         /\ pre.audio_buffer # <<>> \/ pre.partial_chunk # <<>>
         /\ Len(avail) < frames)
        => IF Len(avail) >= 1
           THEN underruns = pre.underruns /\ PartialFill(avail)
           ELSE underruns = pre.underruns + 1 /\ AllSilence(outdata, frames, channels)

\* C4 witness: one frame or more, but fewer than requested, were waiting
PartialFillNotUnderrunWitness ==
    LET avail == Pending(pre.partial_chunk, pre.audio_buffer)
    IN  /\ callbacks > 0
        /\ Len(avail) >= 1
        /\ Len(avail) < frames
        /\ underruns = 0

\* what C5 says of the queue right after an append of block b to queue q0
AppendKeepsNewest(q0, b) ==
    /\ audio_buffer # <<>>
    /\ audio_buffer[Len(audio_buffer)] = b
    /\ audio_buffer = IF Len(q0) = buffer_size THEN Tail(q0) \o <<b>> ELSE q0 \o <<b>>

SplitCorrect ==
    (split.tracking /\ Len(split.block) % split.n # 0) =>
       LET size == Len(split.block)
           k == split.calls
       IN  /\ k >= 1
           /\ k <= CeilDiv(size, split.n)
           /\ IF k * split.n < size
              THEN partial_chunk = << Drop(split.block, k * split.n) >>
              ELSE k = CeilDiv(size, split.n)
           /\ Take(outdata, Min(split.n, size - (k - 1) * split.n))
                 = SubSeq(split.block, (k - 1) * split.n + 1, Min(k * split.n, size))

\* C6 witness: a block of three frames was played out by two invocations
SplitCorrectWitness ==
    /\ split.tracking
    /\ Len(split.block) % split.n # 0
    /\ split.calls >= 2
    /\ split.calls = CeilDiv(Len(split.block), split.n)

\* the datagram received last does not divide into frames
MalformedRx ==
    /\ last_op \in {"append", "drop"}
    /\ Len(rx.data) % (channels * BytesPerSample) # 0

\* the block the largest prefix of whole frames would decode to
TruncatedDecode(data, ch) ==
    Decode(SubSeq(data, 1, (Len(data) \div (ch * BytesPerSample)) * (ch * BytesPerSample)), ch)

IngestRunsUntilFlagClears ==
    /\ [](ingest_pc = "exited" => ~is_running)
    /\ [][(ingest_pc = "recv" /\ ingest_pc' # "recv") => ingest_pc' = "loop"]_vars
    /\ [][(ingest_pc = "loop" /\ is_running) => ingest_pc' # "exited"]_vars

\* C10 witness: the loop has exited after datagrams were received and the
\* socket was closed under it
IngestRunsUntilFlagClearsWitness ==
    /\ ingest_pc = "exited"
    /\ chunks_received >= 1
    /\ socket = "closed"

\* C7: an invocation in which the copy from the carry-over, the copy from a
\* popped block or the silence fill raised has returned (the audio thread is
\* out of the callback) with the whole output buffer zero, whatever it had
\* copied before the fault.
FaultContained ==
    cb_flags.fault =>
       /\ cb_pc = "idle"
       /\ AllSilence(outdata, frames, channels)

\* C7 witness: an invocation that had copied real frames met a fault and has
\* returned
FaultContainedWitness ==
    /\ cb_flags.fault
    /\ frames_written > 0
    /\ cb_pc = "idle"

\* C8: with the receive thread appending (and evicting) between any two
\* statements of the callback, the callback can always take its next step,
\* a loop condition that saw the queue empty leads to the silence fill, and
\* popleft never runs on an empty queue.
NonBlockingReader ==
    /\ ~cb_flags.pop_empty
    /\ cb_pc = "pop" => audio_buffer # <<>>
    /\ cb_flags.saw_empty => cb_pc \in {"fill", "idle"}
    /\ cb_pc # "idle" => ENABLED CbStep

\* C8 witness: the receive thread appended to a full queue, evicting its
\* oldest block, after the callback's loop condition and before its popleft
NonBlockingReaderWitness ==
    /\ cb_pc = "pop"
    /\ last_op = "append"
    /\ buffer_size >= 1
    /\ Len(rx.audio_buffer) = buffer_size

\* C11: shutdown liveness.  Once stop() has cleared the flag, a receive thread
\* that is still in its loop (about to test the flag, or inside recvfrom)
\* eventually leaves it, however the pending recvfrom ends: by timeout, with
\* a datagram, or with an error because the socket was closed.
ShutdownLiveness ==
    (~is_running /\ ingest_pc \in {"loop", "recv"}) ~> (ingest_pc = "exited")

\* C11 witness: the loop has exited after stop() cleared the flag and before
\* stop() closed the socket
ShutdownLivenessWitness ==
    /\ ingest_pc = "exited"
    /\ ~is_running
    /\ main_pc = "stop_stream"
    /\ socket = "open"

\* C12: when starting the output stream has failed, the receive thread has
\* not been started and no datagram has been received or enqueued.
StreamFailureBeforeAnyLoop ==
    stream = "created" =>
       /\ ingest_pc = "none"
       /\ chunks_received = 0
       /\ appended = <<>>

\* C13: stop() reads the statistics only once the receive loop has exited
\* (or never ran) and the stream is no longer active.
StatsReadAfterThreadsStopped ==
    main_pc = "stats" =>
       /\ ingest_pc \in {"none", "exited"}
       /\ stream # "active"

\* C14: the running flag is false at construction, true from the first
\* statement of start() until stop(), false from the first statement of
\* stop() on (also when start() failed), it is raised only by start() and
\* lowered only by stop(), and once lowered it is never raised again.
RunningFlagLifecycle ==
    /\ [](main_pc = "init" => ~is_running)
    /\ [](main_pc \in {"spawn", "open_stream", "wait"} => is_running)
    /\ [](main_pc \in {"stop_stream", "stop_socket", "stats", "done"} => ~is_running)
    /\ [][(is_running' /\ ~is_running) => main_pc = "init"]_vars
    /\ [][(~is_running' /\ is_running) => main_pc = "stop"]_vars
    /\ [][(~is_running /\ main_pc # "init") => ~is_running']_vars

\* C14 witness: start() has ended after socket.socket() raised: the flag was
\* raised, and stop() lowered it in the finally clause
RunningFlagLifecycleWitness ==
    /\ main_pc = "done"
    /\ socket = "none"
    /\ ~is_running

\* C15: with one channel, buffer_size 10 and blocks of 4, 4 and 2 frames
\* enqueued, four invocations asking for 4 frames yield the first block, the
\* second block, the third block followed by two zero frames (the underrun
\* count staying 0 so far), and four zero frames with the count becoming 1.
ScenarioPlayback ==
    (/\ Len(appended) = 3
     /\ << Len(appended[1]), Len(appended[2]), Len(appended[3]) >> = << 4, 4, 2 >>)
    => /\ callbacks = 1 => outdata = appended[1] /\ underruns = 0
       /\ callbacks = 2 => outdata = appended[2] /\ underruns = 0
       /\ callbacks = 3 =>
             /\ outdata = appended[3] \o << SilenceRow(1), SilenceRow(1) >>
             /\ underruns = 0
       /\ callbacks = 4 => AllSilence(outdata, 4, 1) /\ underruns = 1

\* C15 witness: the fourth invocation of the scenario has returned
ScenarioPlaybackWitness ==
    /\ Len(appended) = 3
    /\ << Len(appended[1]), Len(appended[2]), Len(appended[3]) >> = << 4, 4, 2 >>
    /\ buffer_size = 10
    /\ channels = 1
    /\ callbacks = 4
    /\ frames = 4

\* C16: round trip.  The block decoded from a datagram the sender serialised
\* from a block of frame_count x channel_count samples has the same number
\* of frames, each of channel_count samples, and the same sample in every
\* position; the datagram always decodes.
RoundTripDecode ==
    (wire = <<>> /\ chunks_received > 0) =>
       /\ last_op = "append"
       /\ rx.data = ToBytes(indata)
       /\ LET block == appended[Len(appended)]
          IN  /\ Len(block) = Len(indata)
              /\ \A f \in 1..Len(block) :
                    /\ Len(block[f]) = channels
                    /\ \A c \in 1..channels : block[f][c] = indata[f][c]

\* C16 witness: a block of two frames of two channels, its samples not all
\* alike, has been sent, received and decoded
RoundTripDecodeWitness ==
    /\ wire = <<>>
    /\ chunks_received > 0
    /\ channels = 2
    /\ Len(indata) = 2
    /\ indata[1] # indata[2]
    /\ indata[1][1] # indata[1][2]

\* C17: carry-over discipline.  The carry-over is None or holds at least one
\* frame; the callback is about to pop only with the carry-over empty; once
\* a remainder has been saved the loop is over (all frames are written); and
\* an invocation that returns leaving a carry-over wrote real data into
\* every one of its `frames` positions.
CarryOverDiscipline ==
    /\ partial_chunk = <<>> \/ Len(partial_chunk[1]) > 0
    /\ cb_pc = "pop" => partial_chunk = <<>>
    /\ (cb_pc # "idle" /\ partial_chunk # <<>>) => frames_written = frames
    /\ (cb_pc = "idle" /\ callbacks > 0 /\ partial_chunk # <<>>) =>
          /\ frames_written = frames
          /\ Len(outdata) = frames
          /\ \A i \in 1..frames : RealRow(outdata[i], channels)

\* C17 witness: an invocation that began with the carry-over empty has
\* returned, leaving the remainder of a block it popped
CarryOverDisciplineWitness ==
    /\ cb_pc = "idle"
    /\ callbacks > 0
    /\ pre.partial_chunk = <<>>
    /\ partial_chunk # <<>>
    /\ last_op = "callback"

IsSuffix(s, t) == Len(s) <= Len(t) /\ s = SubSeq(t, Len(t) - Len(s) + 1, Len(t))

\* C18: state ownership.  A step of the receive thread leaves the carry-over,
\* the underrun counter and the callback's output alone, and changes the
\* queue, if at all, by one append (with eviction of the oldest block); an
\* audio_callback invocation leaves the receive counters alone and changes
\* the queue only by popping blocks from its front.
StateOwnership ==
    [][ /\ ingest_pc' # ingest_pc =>
              /\ partial_chunk' = partial_chunk
              /\ underruns' = underruns
              /\ outdata' = outdata
              /\ callbacks' = callbacks
              /\ \/ audio_buffer' = audio_buffer /\ appended' = appended
                 \/ /\ Len(appended') = Len(appended) + 1
                    /\ chunks_received' = chunks_received + 1
                    /\ audio_buffer' = DequeAppend(audio_buffer,
                                           appended'[Len(appended')], buffer_size)
        /\ callbacks' # callbacks =>
              /\ bytes_received' = bytes_received
              /\ chunks_received' = chunks_received
              /\ ingest_pc' = ingest_pc
              /\ appended' = appended
              /\ IsSuffix(audio_buffer', audio_buffer)
      ]_vars

\* C18 witness: the receive thread has just appended a block while the
\* callback's carry-over was occupied and its underrun counter non-zero
StateOwnershipWitness ==
    /\ last_op = "append"
    /\ partial_chunk # <<>>
    /\ underruns > 0
    /\ audio_buffer # <<>>

RECURSIVE Surviving(_, _)
\* the blocks of apps, in order, without the blocks ev (a subsequence of it)
Surviving(apps, ev) ==
    IF apps = <<>> THEN <<>>
    ELSE IF ev # <<>> /\ Head(apps) = Head(ev)
         THEN Surviving(Tail(apps), Tail(ev))
         ELSE << Head(apps) >> \o Surviving(Tail(apps), ev)

RECURSIVE IsSubsequence(_, _)
IsSubsequence(s, t) ==
    IF s = <<>> THEN TRUE
    ELSE IF t = <<>> THEN FALSE
         ELSE IF Head(s) = Head(t)
              THEN IsSubsequence(Tail(s), Tail(t))
              ELSE IsSubsequence(s, Tail(t))

\* the real frames handed to the device so far, with those the running
\* invocation has already copied
Played ==
    emitted \o (IF cb_pc # "idle" THEN Take(outdata, frames_written) ELSE <<>>)

CountersVersusBlocks ==
    /\ [](chunks_received >= Len(appended))
    /\ [](last_op = "drop" => chunks_received > Len(appended))
    /\ [][ /\ chunks_received' >= chunks_received
           /\ bytes_received' >= bytes_received
           /\ chunks_received' # chunks_received =>
                 /\ chunks_received' = chunks_received + 1
                 /\ bytes_received' = bytes_received + Len(rx'.data)
                 /\ IF DecodeOk(rx'.data, channels)
                    THEN /\ appended' = Append(appended, Decode(rx'.data, channels))
                         /\ chunks_received' - Len(appended')
                               = chunks_received - Len(appended)
                    ELSE /\ appended' = appended
                         /\ chunks_received' > Len(appended')
           /\ chunks_received' = chunks_received =>
                 /\ appended' = appended
                 /\ bytes_received' = bytes_received
         ]_vars

\* C20 witness: of two datagrams received one decoded and one did not
CountersVersusBlocksWitness ==
    /\ chunks_received = 2
    /\ Len(appended) = 1
    /\ bytes_received > 0

=============================================================================
